---- MODULE Spec2Model ----
(***************************************************************************)
(* Model of the entity-component store of src/src/main.rs: the Database    *)
(* struct (next_id, entities, components), its seven methods and the       *)
(* FieldType addition.  A method taking &mut self is an operator from the  *)
(* Database (and the arguments) to the Database after the call and the     *)
(* value returned; a method taking &self is an operator to the value       *)
(* returned.  Each action calls one method on the variable `database`.     *)
(***************************************************************************)
EXTENDS Integers, Sequences, FiniteSets, TLC

\* ---------------------------------------------------------------- bounds
\* add_entity is called while next_id <= MaxId; the other methods take any
\* id in 1..MaxId (an id need not come from add_entity).
MaxId == 2
\* Integer(v) inputs have v in 0..MaxInt.
MaxInt == 1
\* Float inputs are 0..MaxFloat halves (see Float).
MaxFloat == 0
\* The store holds at most MaxFields field entries in all.
MaxFields == 2
\* Queries take name sequences of length 0..MaxQueryLen.
MaxQueryLen == 2

\* ---------------------------------------------------------------- inputs
Names == {"position", "velocity"}
Fields == {"x", "y"}
Ids == 1..MaxId

\* An i64 is four 16-bit limbs <<top, ., ., low>> in two's complement: the
\* top limb is signed, -2^15 .. 2^15 - 1, the others are 0 .. 2^16 - 1.
Limb == 2^16
TopMin == -(2^15)
TopMax == 2^15 - 1
I64 == (TopMin..TopMax) \X (0..Limb - 1) \X (0..Limb - 1) \X (0..Limb - 1)
I64Min == <<TopMin, 0, 0, 0>>
I64Max == <<TopMax, Limb - 1, Limb - 1, Limb - 1>>

\* The i64 of a small integer (a literal of the program).
ToI64(i) ==
    LET q1 == i \div Limb
        q2 == q1 \div Limb
        q3 == q2 \div Limb
    IN  <<q3, q2 % Limb, q1 % Limb, i % Limb>>

\* The limbs of the mathematical sum a + b; the top one may leave the i64 range.
LimbSum(a, b) ==
    LET s4 == a[4] + b[4]
        s3 == a[3] + b[3] + (s4 \div Limb)
        s2 == a[2] + b[2] + (s3 \div Limb)
        s1 == a[1] + b[1] + (s2 \div Limb)
    IN  <<s1, s2 % Limb, s3 % Limb, s4 % Limb>>

\* Whether the i64 addition a + b overflows.
Overflows(a, b) == LimbSum(a, b)[1] \notin TopMin..TopMax

\* a + b wrapped to 64 bits, what the addition gives without overflow checks.
WrappingAdd(a, b) ==
    LET s == LimbSum(a, b)
    IN  <<((s[1] - TopMin) % Limb) + TopMin, s[2], s[3], s[4]>>

\* An f64 of the model is a multiple of 1/2 below 2^79 in magnitude:
\* <<sign, top, ., ., ., low>>, the sign 1 for a negative number and 0
\* otherwise, and the count of halves in five 16-bit limbs, of at most 53
\* significant bits (the precision of an f64).  Zero is not negative.
\* Five limbs, not normalized, stand for top * 2^64 + ... + low, each limb of
\* either sign.
Carry5(t) ==
    LET s5 == t[5]
        s4 == t[4] + (s5 \div Limb)
        s3 == t[3] + (s4 \div Limb)
        s2 == t[2] + (s3 \div Limb)
        s1 == t[1] + (s2 \div Limb)
    IN  <<s1, s2 % Limb, s3 % Limb, s4 % Limb, s5 % Limb>>

Neg5(t) == <<-t[1], -t[2], -t[3], -t[4], -t[5]>>

\* The sign and magnitude of the number five limbs stand for.
SignMag(t) ==
    LET n == Carry5(t)
    IN  IF n[1] < 0 THEN <<1>> \o Carry5(Neg5(n)) ELSE <<0>> \o n

\* The magnitude of an f64, and its limbs with the sign.
Mag(x) == <<x[2], x[3], x[4], x[5], x[6]>>

Signed5(x) == IF x[1] = 1 THEN Neg5(Mag(x)) ELSE Mag(x)

\* The number of bits of a limb, and of a magnitude.
BitLen(x) == IF x = 0 THEN 0 ELSE CHOOSE n \in 1..16 : 2^(n - 1) <= x /\ x < 2^n

BitLen5(m) ==
    IF m[1] # 0 THEN 64 + BitLen(m[1])
    ELSE IF m[2] # 0 THEN 48 + BitLen(m[2])
    ELSE IF m[3] # 0 THEN 32 + BitLen(m[3])
    ELSE IF m[4] # 0 THEN 16 + BitLen(m[4])
    ELSE BitLen(m[5])

\* Rounding to the nearest f64, ties to even: the magnitude keeps its 53 top
\* bits; the k bits below them are dropped, and one unit of 2^k is added when
\* they are more than half a unit, or half a unit with an odd 53-bit part.
RoundF64(x) ==
    LET m == Mag(x)
        k == BitLen5(m) - 53
    IN  IF k <= 0 THEN x
        ELSE LET low == IF k <= 16 THEN <<0, m[5] % 2^k>> ELSE <<m[4] % 2^(k - 16), m[5]>>
                 half == IF k <= 16 THEN <<0, 2^(k - 1)>> ELSE <<2^(k - 17), 0>>
                 odd == IF k < 16 THEN (m[5] \div 2^k) % 2 = 1
                        ELSE IF k = 16 THEN m[4] % 2 = 1
                        ELSE (m[4] \div 2^(k - 16)) % 2 = 1
                 up == \/ low[1] > half[1]
                       \/ low[1] = half[1] /\ low[2] > half[2]
                       \/ low = half /\ odd
                 unit == IF ~up THEN <<0, 0>>
                         ELSE IF k <= 16 THEN <<0, 2^k>> ELSE <<2^(k - 16), 0>>
             IN  <<x[1]>> \o Carry5(<<m[1], m[2], m[3],
                                      m[4] - low[1] + unit[1], m[5] - low[2] + unit[2]>>)

\* The f64 addition x + y: the exact sum, rounded.
F64Add(x, y) ==
    LET a == Signed5(x)
        b == Signed5(y)
    IN  RoundF64(SignMag(<<a[1] + b[1], a[2] + b[2], a[3] + b[3], a[4] + b[4], a[5] + b[5]>>))

\* The f64 of h halves, h a small integer (a literal of the program).
ToF64(h) == SignMag(<<0, 0, 0, 0, h>>)

\* enum FieldType { Integer(i64), Float(f64) }.  IntegerI64 takes the i64,
\* Integer a small integer; FloatF64 takes the f64, Float a small number of
\* halves, so that Float(3) is 1.5.
IntegerI64(a) == [tag |-> "Integer", v |-> a]
Integer(i) == IntegerI64(ToI64(i))
FloatF64(x) == [tag |-> "Float", v |-> x]
Float(h) == FloatF64(ToF64(h))

\* The values the methods of the store are called with.
FieldType == {Integer(i) : i \in 0..MaxInt} \cup {Float(h) : h \in 0..MaxFloat}

\* `i as f64`: the i64 i is 2 * i halves, rounded to the nearest f64.
AsF64(i) == RoundF64(SignMag(<<0, 2 * i[1], 2 * i[2], 2 * i[3], 2 * i[4]>>))

\* The panic "attempt to add with overflow" of a build with overflow checks.
Panic == [tag |-> "panic"]

\* impl Add for FieldType.  `checked` says whether the build has overflow
\* checks (the debug profile has, the release profile has not): an i64
\* addition that overflows panics with them and wraps without.
Add(self, other, checked) ==
    IF self.tag = "Integer"
    THEN IF other.tag = "Integer"
         THEN IF checked /\ Overflows(self.v, other.v)
              THEN Panic
              ELSE IntegerI64(WrappingAdd(self.v, other.v))
         ELSE FloatF64(F64Add(AsF64(self.v), other.v))
    ELSE IF other.tag = "Integer"
         THEN FloatF64(F64Add(self.v, AsF64(other.v)))
         ELSE FloatF64(F64Add(self.v, other.v))

\* ---------------------------------------------------------------- maps
\* A HashMap is a function; its key set is the function's DOMAIN.
EmptyMap == [k \in {} |-> k]

\* HashMap::insert(k, v): inserts or overwrites.
MapInsert(m, k, v) == [x \in (DOMAIN m) \cup {k} |-> IF x = k THEN v ELSE m[x]]

\* HashMap::entry(k).or_insert(v): keeps the value already under k.
EntryOrInsert(m, k, v) == IF k \in DOMAIN m THEN m ELSE MapInsert(m, k, v)

\* All maps from a subset of keys to vals.
PartialMaps(keys, vals) == UNION {[d -> vals] : d \in SUBSET keys}

\* struct Component { fields: HashMap<String, FieldType> }, as its fields map.
\* The components handed to add_entity and attach_component start every field
\* they carry at Float(0.0), as main does; update_field stores any FieldType.
Component == PartialMaps(Fields, {Float(0)})

\* The permutations of a finite set, as sequences.
Orders(S) == {s \in [1..Cardinality(S) -> S] : \A i, j \in 1..Cardinality(S) : s[i] = s[j] => i = j}

\* Option<T>
None == [some |-> FALSE]
Some(x) == [some |-> TRUE, val |-> x]

\* The value of a method that returns nothing.
Unit == "()"

\* ---------------------------------------------------------------- state
VARIABLES
    database,    \* main's Database: [next_id, entities, components]
    op,          \* the method that ran last
    ret,         \* what it returned
    issued,      \* the ids add_entity has returned, in call order
    calls        \* two callers that each increment one field: arguments, positions, locals

vars == <<database, op, ret, issued, calls>>

\* The two callers.
Callers == {1, 2}

\* No caller at work.
NoCalls ==
    [serialized |-> TRUE,
     old |-> Float(0),
     value |-> [c \in Callers |-> Float(0)],
     pc |-> [c \in Callers |-> "idle"],
     self_value |-> [c \in Callers |-> None],
     ret |-> [c \in Callers |-> FALSE]]

\* Whether entity_id has a component under component_name.
Has(db, entity_id, component_name) ==
    /\ component_name \in DOMAIN db.components
    /\ entity_id \in DOMAIN db.components[component_name]

\* Whether field is set in the component of entity_id under component_name.
FieldSet(db, entity_id, component_name, field) ==
    /\ Has(db, entity_id, component_name)
    /\ field \in DOMAIN db.components[component_name][entity_id]

\* The (name, id) pairs that carry a component.
Attached(db) == {p \in Names \X Ids : Has(db, p[2], p[1])}

\* The ids of the creation-order list.
Listed(db) == {db.entities[i] : i \in DOMAIN db.entities}

\* The number of field entries the store holds.
FieldCount(db) ==
    Cardinality({t \in Names \X Ids \X Fields : FieldSet(db, t[2], t[1], t[3])})

\* ---------------------------------------------------------------- methods
\* A variant that overwrites the component already stored (insert, not or_insert).
add_component_to_entity_overwrite(db, entity_id, component_name, component) ==
    LET registered == EntryOrInsert(db.components, component_name, EmptyMap)
    IN  [db EXCEPT !.components =
            [registered EXCEPT
                ![component_name] = MapInsert(registered[component_name], entity_id, component)]]

\* Database::add_component_to_entity
add_component_to_entity(db, entity_id, component_name, component) ==
    LET registered == EntryOrInsert(db.components, component_name, EmptyMap)
    IN  [db EXCEPT !.components =
            [registered EXCEPT
                ![component_name] = EntryOrInsert(registered[component_name], entity_id, component)]]

\* The loop of add_entity over component_hash, visiting its names in `order`.
RECURSIVE AttachAll(_, _, _, _)
AttachAll(db, entity_id, component_hash, order) ==
    IF order = <<>> THEN db
    ELSE AttachAll(
            add_component_to_entity(db, entity_id, Head(order), component_hash[Head(order)]),
            entity_id, component_hash, Tail(order))

\* A variant that hands out the counter's value after the increment.
add_entity_pre_increment(db, component_hash, order) ==
    LET entity_id == db.next_id + 1
        counted == [db EXCEPT !.next_id = db.next_id + 1]
        attached == AttachAll(counted, entity_id, component_hash, order)
    IN  [db |-> [attached EXCEPT !.entities = Append(attached.entities, entity_id)],
         ret |-> entity_id]

\* A variant that issues and lists the id without attaching the components.
add_entity_unattached(db, component_hash, order) ==
    LET entity_id == db.next_id
        counted == [db EXCEPT !.next_id = db.next_id + 1]
    IN  [db |-> [counted EXCEPT !.entities = Append(counted.entities, entity_id)],
         ret |-> entity_id]

\* A variant that attaches the components without listing the id.
add_entity_unlisted(db, component_hash, order) ==
    LET entity_id == db.next_id
        counted == [db EXCEPT !.next_id = db.next_id + 1]
    IN  [db |-> AttachAll(counted, entity_id, component_hash, order), ret |-> entity_id]

\* A variant that puts the new id at the front of the list.
add_entity_listed_first(db, component_hash, order) ==
    LET entity_id == db.next_id
        counted == [db EXCEPT !.next_id = db.next_id + 1]
        attached == AttachAll(counted, entity_id, component_hash, order)
    IN  [db |-> [attached EXCEPT !.entities = <<entity_id>> \o attached.entities],
         ret |-> entity_id]

\* Database::add_entity, the HashMap component_hash iterated in `order`.
add_entity(db, component_hash, order) ==
    LET entity_id == db.next_id
        counted == [db EXCEPT !.next_id = db.next_id + 1]
        attached == AttachAll(counted, entity_id, component_hash, order)
    IN  [db |-> [attached EXCEPT !.entities = Append(attached.entities, entity_id)],
         ret |-> entity_id]

\* A variant that looks only at the ids of the creation-order list.
get_entity_listed_only(db, entity_id) ==
    [component_name \in {n \in DOMAIN db.components :
                            /\ entity_id \in DOMAIN db.components[n]
                            /\ \E i \in DOMAIN db.entities : db.entities[i] = entity_id} |->
        db.components[component_name][entity_id]]

\* Database::get_entity: the Entity's components map.
get_entity(db, entity_id) ==
    [component_name \in {n \in DOMAIN db.components : entity_id \in DOMAIN db.components[n]} |->
        db.components[component_name][entity_id]]

\* A variant that takes a category's ids without intersecting.
RECURSIVE FilterIdsNoIntersect(_, _, _)
FilterIdsNoIntersect(db, entity_ids, component_names) ==
    IF component_names = <<>> THEN entity_ids
    ELSE FilterIdsNoIntersect(
            db,
            IF Head(component_names) \in DOMAIN db.components
            THEN DOMAIN db.components[Head(component_names)]
            ELSE {},
            Tail(component_names))

\* A variant that skips a name that is no registered category.
RECURSIVE FilterIdsSkipMissing(_, _, _)
FilterIdsSkipMissing(db, entity_ids, component_names) ==
    IF component_names = <<>> THEN entity_ids
    ELSE FilterIdsSkipMissing(
            db,
            IF Head(component_names) \in DOMAIN db.components
            THEN entity_ids \cap DOMAIN db.components[Head(component_names)]
            ELSE entity_ids,
            Tail(component_names))

\* A variant that filters by the last name only.
RECURSIVE FilterIdsLastOnly(_, _, _)
FilterIdsLastOnly(db, entity_ids, component_names) ==
    IF component_names = <<>> THEN entity_ids
    ELSE IF Tail(component_names) = <<>>
         THEN IF Head(component_names) \in DOMAIN db.components
              THEN entity_ids \cap DOMAIN db.components[Head(component_names)]
              ELSE {}
         ELSE FilterIdsLastOnly(db, entity_ids, Tail(component_names))

\* The HashSet entity_ids after the loop of get_entities_with_components
\* has gone through component_names, starting from the set entity_ids.
RECURSIVE FilterIds(_, _, _)
FilterIds(db, entity_ids, component_names) ==
    IF component_names = <<>> THEN entity_ids
    ELSE FilterIds(
            db,
            IF Head(component_names) \in DOMAIN db.components
            THEN entity_ids \cap DOMAIN db.components[Head(component_names)]
            ELSE {},
            Tail(component_names))

\* A variant that starts from the listed ids that carry a component.
QueryIdsFromComponents(db, component_names) ==
    FilterIds(db, {p[2] : p \in Attached(db)} \cap Listed(db), component_names)

\* A variant that starts from every id known to the list or to a category.
QueryIdsFromAttached(db, component_names) ==
    FilterIds(db, Listed(db) \cup {p[2] : p \in Attached(db)}, component_names)

\* The ids whose views get_entities_with_components returns.
QueryIds(db, component_names) ==
    FilterIds(db, Listed(db), component_names)

\* Database::get_entities_with_components: the HashSet is iterated in an
\* unspecified order, so every order of the surviving ids is a possible result.
get_entities_with_components(db, component_names) ==
    {[i \in DOMAIN order |-> get_entity(db, order[i])] :
        order \in Orders(QueryIds(db, component_names))}

\* A variant that creates the component it does not find (entry().or_insert).
update_component_field_creating(db, entity_id, component_name, field, value) ==
    IF component_name \in DOMAIN db.components
    THEN [db |-> [db EXCEPT !.components[component_name] =
                     MapInsert(db.components[component_name], entity_id,
                         MapInsert(IF entity_id \in DOMAIN db.components[component_name]
                                   THEN db.components[component_name][entity_id]
                                   ELSE EmptyMap,
                                   field, value))],
          ret |-> TRUE]
    ELSE [db |-> db, ret |-> FALSE]

\* A variant that replaces the component's fields by the one written.
update_component_field_replacing(db, entity_id, component_name, field, value) ==
    IF component_name \in DOMAIN db.components
    THEN IF entity_id \in DOMAIN db.components[component_name]
         THEN [db |-> [db EXCEPT !.components[component_name][entity_id] =
                          MapInsert(EmptyMap, field, value)],
               ret |-> TRUE]
         ELSE [db |-> db, ret |-> FALSE]
    ELSE [db |-> db, ret |-> FALSE]

\* Database::update_component_field
update_component_field(db, entity_id, component_name, field, value) ==
    IF component_name \in DOMAIN db.components
    THEN IF entity_id \in DOMAIN db.components[component_name]
         THEN [db |-> [db EXCEPT !.components[component_name][entity_id] =
                          MapInsert(db.components[component_name][entity_id], field, value)],
               ret |-> TRUE]
         ELSE [db |-> db, ret |-> FALSE]
    ELSE [db |-> db, ret |-> FALSE]

\* A variant that reports an unset field of a stored component as Integer(0).
get_component_field_value_sentinel(db, entity_id, component_name, field) ==
    IF component_name \in DOMAIN db.components
    THEN IF entity_id \in DOMAIN db.components[component_name]
         THEN IF field \in DOMAIN db.components[component_name][entity_id]
              THEN Some(db.components[component_name][entity_id][field])
              ELSE Some(Integer(0))
         ELSE None
    ELSE None

\* Database::get_component_field_value
get_component_field_value(db, entity_id, component_name, field) ==
    IF component_name \in DOMAIN db.components
    THEN IF entity_id \in DOMAIN db.components[component_name]
         THEN IF field \in DOMAIN db.components[component_name][entity_id]
              THEN Some(db.components[component_name][entity_id][field])
              ELSE None
         ELSE None
    ELSE None

\* A variant that writes the delta when there is no current value.
increment_component_field_creating(db, entity_id, component_name, field, value, checked) ==
    LET current == get_component_field_value(db, entity_id, component_name, field)
    IN  IF current.some
        THEN LET sum == Add(current.val, value, checked)
             IN  IF sum = Panic
                 THEN [db |-> db, panic |-> TRUE]
                 ELSE update_component_field(db, entity_id, component_name, field, sum)
        ELSE update_component_field(db, entity_id, component_name, field, value)

\* Whether a call ended in a panic: then it returned nothing.
Panicked(r) == "panic" \in DOMAIN r

\* A variant that stores the delta in place of the sum.
increment_component_field_overwriting(db, entity_id, component_name, field, value, checked) ==
    LET self_value == get_component_field_value(db, entity_id, component_name, field)
    IN  IF self_value.some
        THEN update_component_field(db, entity_id, component_name, field, value)
        ELSE [db |-> db, ret |-> FALSE]

\* Database::increment_component_field.  When the addition panics the call
\* unwinds before update_component_field: the store is as it was.
increment_component_field(db, entity_id, component_name, field, value, checked) ==
    LET current == get_component_field_value(db, entity_id, component_name, field)
    IN  IF current.some
        THEN LET sum == Add(current.val, value, checked)
             IN  IF sum = Panic
                 THEN [db |-> db, panic |-> TRUE]
                 ELSE update_component_field(db, entity_id, component_name, field, sum)
        ELSE [db |-> db, ret |-> FALSE]

\* ---------------------------------------------------------------- actions
\* main: Database { next_id: 1, entities: vec![], components: HashMap::new() }
Init ==
    /\ database = [next_id |-> 1, entities |-> <<>>, components |-> EmptyMap]
    /\ op = "new"
    /\ ret = Unit
    /\ issued = <<>>
    /\ calls = NoCalls

\* The bound on the stores the actions lead to.
InBounds(db) == FieldCount(db) <= MaxFields

AddEntity(component_hash, order) ==
    /\ database.next_id <= MaxId
    /\ LET r == add_entity(database, component_hash, order)
       IN  /\ InBounds(r.db)
           /\ database' = r.db
           /\ ret' = r.ret
           /\ issued' = Append(issued, r.ret)
    /\ op' = "add_entity"
    /\ UNCHANGED calls

\* attach_component is Database::add_component_to_entity.
AttachComponent(entity_id, component_name, component) ==
    /\ LET after == add_component_to_entity(database, entity_id, component_name, component)
       IN  /\ InBounds(after)
           /\ database' = after
    /\ op' = "attach_component"
    /\ ret' = Unit
    /\ UNCHANGED <<issued, calls>>

GetEntity(entity_id) ==
    /\ op' = "get_entity"
    /\ ret' = get_entity(database, entity_id)
    /\ UNCHANGED <<database, issued, calls>>

GetEntitiesWithComponents(component_names) ==
    /\ op' = "get_entities_with_components"
    /\ ret' \in get_entities_with_components(database, component_names)
    /\ UNCHANGED <<database, issued, calls>>

\* update_field is Database::update_component_field.
UpdateField(entity_id, component_name, field, value) ==
    /\ LET r == update_component_field(database, entity_id, component_name, field, value)
       IN  /\ InBounds(r.db)
           /\ database' = r.db
           /\ ret' = r.ret
    /\ op' = "update_field"
    /\ UNCHANGED <<issued, calls>>

\* get_field is Database::get_component_field_value.
GetField(entity_id, component_name, field) ==
    /\ op' = "get_field"
    /\ ret' = get_component_field_value(database, entity_id, component_name, field)
    /\ UNCHANGED <<database, issued, calls>>

\* increment_field is Database::increment_component_field, called while the
\* sum stays among the values of FieldType.
IncrementField(entity_id, component_name, field, value, checked) ==
    /\ LET r == increment_component_field(database, entity_id, component_name, field, value, checked)
       IN  /\ ~Panicked(r)
           /\ InBounds(r.db)
           /\ r.ret => r.db.components[component_name][entity_id][field] \in FieldType
           /\ database' = r.db
           /\ ret' = r.ret
    /\ op' = "increment_field"
    /\ UNCHANGED <<issued, calls>>

\* The name sequences a query is called with.
NameSeqs == UNION {[1..n -> Names] : n \in 0..MaxQueryLen}

Next ==
    \/ \E component_hash \in PartialMaps(Names, Component) :
          \E order \in Orders(DOMAIN component_hash) : AddEntity(component_hash, order)
    \/ \E entity_id \in Ids, component_name \in Names, component \in Component :
          AttachComponent(entity_id, component_name, component)
    \/ \E entity_id \in Ids : GetEntity(entity_id)
    \/ \E component_names \in NameSeqs : GetEntitiesWithComponents(component_names)
    \/ \E entity_id \in Ids, component_name \in Names, field \in Fields, value \in FieldType :
          UpdateField(entity_id, component_name, field, value)
    \/ \E entity_id \in Ids, component_name \in Names, field \in Fields :
          GetField(entity_id, component_name, field)
    \/ \E entity_id \in Ids, component_name \in Names, field \in Fields, value \in FieldType :
          \E checked \in BOOLEAN : IncrementField(entity_id, component_name, field, value, checked)

Spec == Init /\ [][Next]_vars

\* The program when add_component_to_entity is called by add_entity only.
NextNoAttach ==
    \/ \E component_hash \in PartialMaps(Names, Component) :
          \E order \in Orders(DOMAIN component_hash) : AddEntity(component_hash, order)
    \/ \E entity_id \in Ids : GetEntity(entity_id)
    \/ \E component_names \in NameSeqs : GetEntitiesWithComponents(component_names)
    \/ \E entity_id \in Ids, component_name \in Names, field \in Fields, value \in FieldType :
          UpdateField(entity_id, component_name, field, value)
    \/ \E entity_id \in Ids, component_name \in Names, field \in Fields :
          GetField(entity_id, component_name, field)
    \/ \E entity_id \in Ids, component_name \in Names, field \in Fields, value \in FieldType :
          \E checked \in BOOLEAN : IncrementField(entity_id, component_name, field, value, checked)

SpecNoAttach == Init /\ [][NextNoAttach]_vars

\* ------------------------------------------------- the store at full width
\* A second specification: one entity whose "position" holds x and y, with
\* values up to the ends of the i64 range, incremented by either build.
WideValues ==
    {IntegerI64(a) : a \in {I64Min, WrappingAdd(I64Min, ToI64(1)), ToI64(-1), ToI64(0),
                            ToI64(1), ToI64(2), ToI64(3), ToI64(5),
                            WrappingAdd(I64Max, ToI64(-1)), I64Max}}
        \cup {Float(h) : h \in {0, 2, 3, 4, 6, 7}}
        \cup {FloatF64(AsF64(I64Min)), FloatF64(AsF64(I64Max))}

\* add_entity with the one component "position" = {x, y}.
AddEntityWide(x, y) ==
    /\ op = "new"
    /\ LET r == add_entity(database, [n \in {"position"} |-> [f \in Fields |-> IF f = "x" THEN x ELSE y]],
                           <<"position">>)
       IN  /\ database' = r.db
           /\ ret' = r.ret
           /\ issued' = Append(issued, r.ret)
    /\ op' = "add_entity"
    /\ UNCHANGED calls

\* increment_field on the entity; a panic ends the program.
IncrementFieldWide(field, value, checked) ==
    /\ op \notin {"new", "panic"}
    /\ LET r == increment_component_field(database, 1, "position", field, value, checked)
       IN  IF Panicked(r)
           THEN /\ database' = r.db
                /\ op' = "panic"
                /\ ret' = Unit
           ELSE /\ r.db.components["position"][1][field] \in WideValues
                /\ database' = r.db
                /\ op' = "increment_field"
                /\ ret' = r.ret
    /\ UNCHANGED <<issued, calls>>

GetFieldWide(field) ==
    /\ op \notin {"new", "panic"}
    /\ op' = "get_field"
    /\ ret' = get_component_field_value(database, 1, "position", field)
    /\ UNCHANGED <<database, issued, calls>>

NextWide ==
    \/ \E x \in WideValues, y \in WideValues : AddEntityWide(x, y)
    \/ \E field \in Fields, value \in WideValues, checked \in BOOLEAN :
          IncrementFieldWide(field, value, checked)
    \/ \E field \in Fields : GetFieldWide(field)

SpecWide == Init /\ [][NextWide]_vars

\* ------------------------------------------------------------ two callers
\* Two callers add their deltas to "x" of the "position" of entity 1, which is
\* created holding `old`.  Serialized, a caller calls increment_field, which
\* is one step (the method holds &mut self from its read to its write).
\* Otherwise a caller does by itself what increment_field does: it calls
\* get_field, keeps the value, and later calls update_field with the value
\* it kept plus its delta; between the two calls the other caller may run.
Operands == {Integer(0), Integer(1), Integer(2), Float(1), Float(4)}

InitTwoCallers ==
    /\ database = [next_id |-> 1, entities |-> <<>>, components |-> EmptyMap]
    /\ op = "new"
    /\ ret = Unit
    /\ issued = <<>>
    /\ \E old \in Operands, d1 \in Operands, d2 \in Operands, serialized \in BOOLEAN :
          calls = [serialized |-> serialized,
                   old |-> old,
                   value |-> [c \in Callers |-> IF c = 1 THEN d1 ELSE d2],
                   pc |-> [c \in Callers |-> "call"],
                   self_value |-> [c \in Callers |-> None],
                   ret |-> [c \in Callers |-> FALSE]]

\* add_entity with the component "position" = {x: old, y: Float(0.0)}.
CreateField ==
    /\ op = "new"
    /\ LET r == add_entity(database,
                           [n \in {"position"} |->
                               [f \in Fields |-> IF f = "x" THEN calls.old ELSE Float(0)]],
                           <<"position">>)
       IN  /\ database' = r.db
           /\ ret' = r.ret
           /\ issued' = Append(issued, r.ret)
    /\ op' = "add_entity"
    /\ UNCHANGED calls

\* Caller c calls increment_field; a panic ends the program.
IncrementExclusive(c, checked) ==
    /\ op \notin {"new", "panic"}
    /\ calls.serialized
    /\ calls.pc[c] = "call"
    /\ LET r == increment_component_field(database, 1, "position", "x", calls.value[c], checked)
       IN  IF Panicked(r)
           THEN /\ database' = r.db
                /\ op' = "panic"
                /\ ret' = Unit
                /\ UNCHANGED calls
           ELSE /\ database' = r.db
                /\ op' = "increment_field"
                /\ ret' = r.ret
                /\ calls' = [calls EXCEPT !.pc[c] = "done", !.ret[c] = r.ret]
    /\ UNCHANGED issued

\* Caller c calls get_field, as line 140 does; on None it is done, with false
\* (line 144).
ReadField(c) ==
    /\ op \notin {"new", "panic"}
    /\ ~calls.serialized
    /\ calls.pc[c] = "call"
    /\ LET got == get_component_field_value(database, 1, "position", "x")
       IN  /\ ret' = got
           /\ calls' = IF got.some
                        THEN [calls EXCEPT !.pc[c] = "write", !.self_value[c] = got]
                        ELSE [calls EXCEPT !.pc[c] = "done", !.ret[c] = FALSE]
    /\ op' = "get_field"
    /\ UNCHANGED <<database, issued>>

\* Caller c calls update_field with the value it read plus its delta, as line
\* 141 does; a panic in the addition ends the program.
WriteField(c, checked) ==
    /\ op \notin {"new", "panic"}
    /\ ~calls.serialized
    /\ calls.pc[c] = "write"
    /\ LET sum == Add(calls.self_value[c].val, calls.value[c], checked)
       IN  IF sum = Panic
           THEN /\ op' = "panic"
                /\ ret' = Unit
                /\ UNCHANGED <<database, calls>>
           ELSE LET r == update_component_field(database, 1, "position", "x", sum)
                IN  /\ database' = r.db
                    /\ op' = "update_field"
                    /\ ret' = r.ret
                    /\ calls' = [calls EXCEPT !.pc[c] = "done", !.ret[c] = r.ret]
    /\ UNCHANGED issued

NextTwoCallers ==
    \/ CreateField
    \/ \E c \in Callers, checked \in BOOLEAN : IncrementExclusive(c, checked)
    \/ \E c \in Callers : ReadField(c)
    \/ \E c \in Callers, checked \in BOOLEAN : WriteField(c, checked)

SpecTwoCallers == InitTwoCallers /\ [][NextTwoCallers]_vars

\* ---------------------------------------------------------------- claims
\* The ids that are in the creation-order list and carry every named category.
Carriers(db, component_names) ==
    {id \in Listed(db) : \A k \in DOMAIN component_names : Has(db, id, component_names[k])}

\* The lists of views of the ids of S, one view per id, in any order.
ViewsOf(db, S) ==
    {[i \in DOMAIN order |-> get_entity(db, order[i])] : order \in Orders(S)}

\* Every component over Fields and FieldType, as an argument of a method.
AnyComponent == PartialMaps(Fields, FieldType)

\* The value a field holds, or None in each of the three cases of absence.
Stored(db, entity_id, component_name, field) ==
    IF component_name \notin DOMAIN db.components THEN None
    ELSE IF entity_id \notin DOMAIN db.components[component_name] THEN None
    ELSE IF field \notin DOMAIN db.components[component_name][entity_id] THEN None
    ELSE Some(db.components[component_name][entity_id][field])

\* C1: first-write-wins. In every reachable state, attach_component on an
\* (entity_id, name) that carries a component leaves the whole store as it
\* is; on one that carries none, the component under (entity_id, name) is
\* afterwards exactly the one given.
C1_FirstWriteWins ==
    \A entity_id \in Ids, name \in Names, c \in AnyComponent :
        LET after == add_component_to_entity(database, entity_id, name, c)
        IN  IF Has(database, entity_id, name)
            THEN after = database
            ELSE Has(after, entity_id, name) /\ after.components[name][entity_id] = c

\* attach_component ran last, on the one pair that carries a component (a
\* second pair would be stored otherwise); its field had been updated to
\* Integer(1) before, and is still there.
C1_Witness ==
    /\ op = "attach_component"
    /\ Cardinality(Attached(database)) = 1
    /\ \E p \in Attached(database) : \E f \in DOMAIN database.components[p[1]][p[2]] :
          database.components[p[1]][p[2]][f] = Integer(1)

\* C2: the k-th call of add_entity returns k, whatever ran in between: the
\* ids returned so far are 1, 2, ... in call order (so they start at 1,
\* increase strictly and none comes twice), and the id just returned is the
\* number of calls made.
C2_IdsCountUp ==
    /\ \A k \in 1..Len(issued) : issued[k] = k
    /\ op = "add_entity" => ret = Len(issued)

\* The second add_entity returned 2, after an attach_component on id 2 and an
\* update_field to Integer(1) on it had run.
C2_Witness ==
    /\ op = "add_entity"
    /\ ret = 2
    /\ issued = <<1, 2>>
    /\ \E n \in Names :
          /\ Has(database, 2, n)
          /\ \E f \in DOMAIN database.components[n][2] : database.components[n][2][f] = Integer(1)

\* C3: get_entities_with_components(names) returns one view per id that is
\* in the creation-order list and has an entry in every named category, no
\* other, none twice, and each view is get_entity of its id.
C3_QueryExact ==
    /\ \A names \in NameSeqs :
          /\ QueryIds(database, names) = Carriers(database, names)
          /\ get_entities_with_components(database, names)
                = ViewsOf(database, Carriers(database, names))
          /\ \A r \in get_entities_with_components(database, names) :
                Len(r) = Cardinality(Carriers(database, names))
    /\ op = "get_entities_with_components" =>
          \E names \in NameSeqs : ret \in ViewsOf(database, Carriers(database, names))

\* A query returned one of two listed entities, the one that carries a
\* component; the other carries none.
C3_Witness ==
    /\ op = "get_entities_with_components"
    /\ Len(database.entities) = 2
    /\ Len(ret) = 1
    /\ ret[1] # EmptyMap
    /\ \E id \in Listed(database) : get_entity(database, id) = EmptyMap

\* C4: a name that is no registered category, anywhere in the sequence and
\* whatever the other names, makes the result the empty list.
C4_UnregisteredNameEmpties ==
    \A names \in NameSeqs :
        (\E k \in DOMAIN names : names[k] \notin DOMAIN database.components) =>
            get_entities_with_components(database, names) = {<<>>}

\* A query came back empty although the only listed entity carries the only
\* registered category: the query named the unregistered one.
C4_Witness ==
    /\ op = "get_entities_with_components"
    /\ ret = <<>>
    /\ database.entities = <<1>>
    /\ \E n \in Names : DOMAIN database.components = {n} /\ Has(database, 1, n)

\* C5: get_entities_with_components of the empty sequence returns one view
\* per id of the creation-order list, entities without components included,
\* and the empty list when no entity was created.
C5_EmptyQueryReturnsAll ==
    /\ QueryIds(database, <<>>) = Listed(database)
    /\ get_entities_with_components(database, <<>>) = ViewsOf(database, Listed(database))
    /\ \A r \in get_entities_with_components(database, <<>>) : Len(r) = Len(database.entities)
    /\ database.entities = <<>> => get_entities_with_components(database, <<>>) = {<<>>}

\* A query returned two views, one of them without components: only the
\* empty sequence selects an entity that carries nothing.
C5_Witness ==
    /\ op = "get_entities_with_components"
    /\ Len(ret) = 2
    /\ \E i, j \in DOMAIN ret : ret[i] = EmptyMap /\ ret[j] # EmptyMap

\* C6: query monotonicity. The ids selected by L + [n] are among those
\* selected by L, for every name sequence L and name n.
C6_QueryMonotone ==
    \A L \in NameSeqs : \A n \in Names :
        QueryIds(database, Append(L, n)) \subseteq QueryIds(database, L)

\* After a query, a state where one more name after a non-empty sequence
\* selects fewer ids, and not none.
C6_Witness ==
    /\ op = "get_entities_with_components"
    /\ \E L \in NameSeqs : \E n \in Names :
          /\ L # <<>>
          /\ QueryIds(database, Append(L, n)) # {}
          /\ QueryIds(database, Append(L, n)) # QueryIds(database, L)

\* C7: update_field returns false exactly when the category is not
\* registered or the entity has no component under it, and then the store
\* is unchanged: no category, component or field is created.
C7_UpdateFailsCleanly ==
    \A entity_id \in Ids, name \in Names, f \in Fields, v \in FieldType :
        LET r == update_component_field(database, entity_id, name, f, v)
        IN  /\ (r.ret = FALSE) <=>
                  \/ name \notin DOMAIN database.components
                  \/ entity_id \notin DOMAIN database.components[name]
            /\ (r.ret = FALSE) => r.db = database

\* update_field returned false in a store whose categories are all
\* registered: the entity lacked the component.
C7_Witness ==
    /\ op = "update_field"
    /\ ret = FALSE
    /\ DOMAIN database.components = Names
    /\ Attached(database) # Names \X Ids

\* C8: update_field on a stored component returns true, whether or not the
\* field was set; get_field then returns the value written; and no other
\* field, no other component, no category, the list and the counter change.
C8_UpdateWritesOneField ==
    \A entity_id \in Ids, name \in Names, f \in Fields, v \in FieldType :
        Has(database, entity_id, name) =>
            LET r == update_component_field(database, entity_id, name, f, v)
            IN  /\ r.ret = TRUE
                /\ get_component_field_value(r.db, entity_id, name, f) = Some(v)
                /\ r.db.next_id = database.next_id
                /\ r.db.entities = database.entities
                /\ DOMAIN r.db.components = DOMAIN database.components
                /\ Attached(r.db) = Attached(database)
                /\ \A id2 \in Ids, n2 \in Names, f2 \in Fields :
                      <<id2, n2, f2>> # <<entity_id, name, f>> =>
                          get_component_field_value(r.db, id2, n2, f2)
                              = get_component_field_value(database, id2, n2, f2)

\* update_field returned true on a component that holds two fields, one of
\* them Integer(1) and the other still Float(0.0), while another component
\* is stored.
C8_Witness ==
    /\ op = "update_field"
    /\ ret = TRUE
    /\ Cardinality(Attached(database)) >= 2
    /\ \E p \in Attached(database) :
          /\ DOMAIN database.components[p[1]][p[2]] = Fields
          /\ \E f, g \in Fields :
                /\ database.components[p[1]][p[2]][f] = Integer(1)
                /\ database.components[p[1]][p[2]][g] = Float(0)

\* C9: get_field returns the value stored last for the field (by the first
\* attachment, update_field or increment_field), and absent exactly when the
\* category is not registered, the entity has no component in it, or the
\* field is not set.  In every reachable state: get_field is the stored value
\* or absent by those three cases; after a write that succeeds get_field is
\* the value written; and a write to another field leaves it as it was.
C9_GetFieldReturnsLastStored ==
    /\ \A entity_id \in Ids, name \in Names, f \in Fields :
          get_component_field_value(database, entity_id, name, f)
              = Stored(database, entity_id, name, f)
    /\ op = "get_field" =>
          \E entity_id \in Ids, name \in Names, f \in Fields :
              ret = Stored(database, entity_id, name, f)
    /\ \A entity_id \in Ids, name \in Names, f \in Fields, v \in FieldType :
          LET u == update_component_field(database, entity_id, name, f, v)
          IN  /\ u.ret => get_component_field_value(u.db, entity_id, name, f) = Some(v)
              /\ \A id2 \in Ids, n2 \in Names, f2 \in Fields :
                    <<id2, n2, f2>> # <<entity_id, name, f>> =>
                        get_component_field_value(u.db, id2, n2, f2)
                            = get_component_field_value(database, id2, n2, f2)
    /\ \A entity_id \in Ids, name \in Names, f \in Fields, v \in FieldType :
          \A checked \in BOOLEAN :
              LET i == increment_component_field(database, entity_id, name, f, v, checked)
              IN  (~Panicked(i) /\ i.ret) =>
                      /\ get_component_field_value(i.db, entity_id, name, f)
                            = Some(Add(Stored(database, entity_id, name, f).val, v, checked))
                      /\ \A id2 \in Ids, n2 \in Names, f2 \in Fields :
                            <<id2, n2, f2>> # <<entity_id, name, f>> =>
                                get_component_field_value(i.db, id2, n2, f2)
                                    = get_component_field_value(database, id2, n2, f2)
    /\ \A entity_id \in Ids, name \in Names, c \in AnyComponent :
          LET a == add_component_to_entity(database, entity_id, name, c)
          IN  \A id2 \in Ids, n2 \in Names, f2 \in Fields :
                  get_component_field_value(a, id2, n2, f2)
                      = IF <<id2, n2>> = <<entity_id, name>> /\ ~Has(database, entity_id, name)
                        THEN (IF f2 \in DOMAIN c THEN Some(c[f2]) ELSE None)
                        ELSE get_component_field_value(database, id2, n2, f2)

\* get_field returned Integer(1), a value only update_field and
\* increment_field store, from a component whose other field is not set.
C9_Witness ==
    /\ op = "get_field"
    /\ ret = Some(Integer(1))
    /\ \E p \in Attached(database) : Cardinality(DOMAIN database.components[p[1]][p[2]]) = 1

\* C10: increment_field on an absent field (category not registered, entity
\* without the component, or field not set) returns false and leaves the
\* store unchanged; the field is not created with the delta.
C10_IncrementAbsentFails ==
    \A entity_id \in Ids, name \in Names, f \in Fields, v \in FieldType :
        ~FieldSet(database, entity_id, name, f) =>
            \A checked \in BOOLEAN :
                LET r == increment_component_field(database, entity_id, name, f, v, checked)
                IN  ~Panicked(r) /\ r.ret = FALSE /\ r.db = database

\* increment_field returned false in a store that holds a component with a
\* field that is not set.
C10_Witness ==
    /\ op = "increment_field"
    /\ ret = FALSE
    /\ \E p \in Attached(database) : DOMAIN database.components[p[1]][p[2]] # Fields

\* A field the full-width store holds.
WideCase(field) == FieldSet(database, 1, "position", field)

\* A value as an f64: an Integer widened by `as f64`, a Float as it is.
Widened(a) == IF a.tag = "Integer" THEN AsF64(a.v) ELSE a.v

\* C11: increment_field on a present field with value old returns true and
\* get_field then returns combine(old, delta); a second increment leaves
\* combine(combine(old, d1), d2); no other field changes.
C11_IncrementCombines ==
    \A field \in Fields, d1 \in WideValues, checked \in BOOLEAN :
        WideCase(field) =>
            LET old == database.components["position"][1][field]
                r == increment_component_field(database, 1, "position", field, d1, checked)
            IN  /\ ~Panicked(r)
                /\ r.ret = TRUE
                /\ get_component_field_value(r.db, 1, "position", field)
                      = Some(Add(old, d1, checked))
                /\ \A f2 \in Fields \ {field} :
                      get_component_field_value(r.db, 1, "position", f2)
                          = get_component_field_value(database, 1, "position", f2)
                /\ r.db.next_id = database.next_id /\ r.db.entities = database.entities
                /\ \A d2 \in {Integer(0), Float(0)} :
                      LET r2 == increment_component_field(r.db, 1, "position", field, d2, checked)
                      IN  /\ ~Panicked(r2)
                          /\ r2.ret = TRUE
                          /\ get_component_field_value(r2.db, 1, "position", field)
                                = Some(Add(Add(old, d1, checked), d2, checked))

\* C14: combine(a, b) is an Integer holding a + b exactly when both operands
\* are Integer, a Float holding the f64 sum of the two, an Integer widened,
\* when one is a Float, and Integer(x) + Float(y) = Float(y) + Integer(x);
\* 2 + 3 = 5, 2 + 1.5 = 1.5 + 2 = 3.5, 1.0 + 2.0 = 3.0.  Here a is a field
\* the store holds and b a value it is incremented by.
C14_CombineTable ==
    \A field \in Fields, b \in WideValues, checked \in BOOLEAN :
        WideCase(field) =>
            LET a == database.components["position"][1][field]
                r == Add(a, b, checked)
            IN  /\ r # Panic
                /\ r.tag = "Integer" <=> (a.tag = "Integer" /\ b.tag = "Integer")
                /\ (a.tag = "Integer" /\ b.tag = "Integer") =>
                      ~Overflows(a.v, b.v) /\ r.v = LimbSum(a.v, b.v)
                /\ (a.tag = "Float" \/ b.tag = "Float") =>
                      r = FloatF64(F64Add(Widened(a), Widened(b)))
                /\ (a.tag # b.tag) => r = Add(b, a, checked)
                /\ Add(Integer(2), Integer(3), checked) = Integer(5)
                /\ Add(Integer(2), Float(3), checked) = Float(7)
                /\ Add(Float(3), Integer(2), checked) = Float(7)
                /\ Add(Float(2), Float(4), checked) = Float(6)

\* C15: combine is total, also for two Integers whose sum is outside the i64
\* range: it ends with a FieldType, so increment_field on a present field
\* ends with true or false and never with a failure.
C15_AddIsTotal ==
    /\ op # "panic"
    /\ \A field \in Fields, delta \in WideValues, checked \in BOOLEAN :
          WideCase(field) =>
              /\ Add(database.components["position"][1][field], delta, checked) # Panic
              /\ ~Panicked(increment_component_field(database, 1, "position", field, delta, checked))

\* C12 as stated: right after add_entity(C) returns id, get_entity(id) carries
\* for every name of C the component C[name], and id is the last element of
\* the creation-order list.
C12_AddEntityAttachesSupplied ==
    \A component_hash \in PartialMaps(Names, Component) :
        \A order \in Orders(DOMAIN component_hash) :
            LET r == add_entity(database, component_hash, order)
                e == get_entity(r.db, r.ret)
            IN  /\ \A n \in DOMAIN component_hash :
                      n \in DOMAIN e /\ e[n] = component_hash[n]
                /\ Len(r.db.entities) > 0
                /\ r.db.entities[Len(r.db.entities)] = r.ret

\* C12, amended: right after add_entity(C) returns id, every name of C is
\* attached under id; it carries C[name] unless a component was attached
\* under (id, name) before the call, and then it carries that earlier
\* component; id is appended as the last element of the creation-order list.
C12_AddEntityKeepsEarlier ==
    \A component_hash \in PartialMaps(Names, Component) :
        \A order \in Orders(DOMAIN component_hash) :
            LET r == add_entity(database, component_hash, order)
                e == get_entity(r.db, r.ret)
            IN  /\ r.ret = database.next_id
                /\ \A n \in DOMAIN component_hash :
                      /\ n \in DOMAIN e
                      /\ e[n] = IF Has(database, r.ret, n)
                                THEN database.components[n][r.ret]
                                ELSE component_hash[n]
                /\ DOMAIN e = DOMAIN component_hash \cup DOMAIN get_entity(database, r.ret)
                /\ r.db.entities = Append(database.entities, r.ret)

\* add_entity has just returned an id under which a component holds an
\* Integer: add_entity is given Float fields only, so the component was
\* attached under the id, and written, before the id was issued.
C12_Witness ==
    /\ op = "add_entity"
    /\ \E n \in Names, f \in Fields :
          /\ FieldSet(database, ret, n, f)
          /\ database.components[n][ret][f] = Integer(1)
    /\ database.entities[Len(database.entities)] = ret

\* C13: get_entity(entity_id) returns exactly the (name, component) pairs
\* registered under entity_id, an empty view for an id with none (issued or
\* not), and leaves the store as it was.
C13_GetEntityIsTheView ==
    /\ [](\A entity_id \in 0..MaxId + 1 :
            LET e == get_entity(database, entity_id)
            IN  /\ DOMAIN e = {n \in Names : Has(database, entity_id, n)}
                /\ \A n \in DOMAIN e : e[n] = database.components[n][entity_id]
                /\ (\A n \in Names : ~Has(database, entity_id, n)) => e = EmptyMap)
    /\ [][op' = "get_entity" =>
            /\ database' = database
            /\ \E entity_id \in Ids : ret' = get_entity(database, entity_id)]_vars

\* get_entity returned a view of two components for an id that is not in the
\* creation-order list.
C13_Witness ==
    /\ op = "get_entity"
    /\ DOMAIN ret = Names
    /\ database.entities = <<>>

\* C16: when attach_component is never called directly, every id with an
\* entry in a component category is in the creation-order list, and so is
\* every id add_entity returned.
C16_AttachedAreListed ==
    /\ \A n \in DOMAIN database.components :
          \A entity_id \in DOMAIN database.components[n] : entity_id \in Listed(database)
    /\ \A i \in DOMAIN issued : issued[i] \in Listed(database)

\* update_field has just failed in a store where one id is issued and carries
\* a component, so the failed call created nothing outside the list.
C16_Witness ==
    /\ op = "update_field"
    /\ ret = FALSE
    /\ Len(issued) = 1
    /\ \E n \in Names : Has(database, issued[1], n)

\* C17: nothing is removed by any step: the creation-order list before the
\* step is a prefix of the list after it, a registered category stays
\* registered, a component attached under (id, name) stays attached, and a
\* field that is set stays set.
C17_NothingRemoved ==
    [][/\ Len(database.entities) <= Len(database'.entities)
       /\ SubSeq(database'.entities, 1, Len(database.entities)) = database.entities
       /\ DOMAIN database.components \subseteq DOMAIN database'.components
       /\ \A n \in DOMAIN database.components :
             /\ DOMAIN database.components[n] \subseteq DOMAIN database'.components[n]
             /\ \A entity_id \in DOMAIN database.components[n] :
                   DOMAIN database.components[n][entity_id]
                       \subseteq DOMAIN database'.components[n][entity_id]]_vars

\* update_field has just written into a store with two listed ids and a
\* component whose two fields are set.
C17_Witness ==
    /\ op = "update_field"
    /\ ret = TRUE
    /\ Len(database.entities) = 2
    /\ \E q \in Attached(database) : DOMAIN database.components[q[1]][q[2]] = Fields

\* Both callers have finished.
BothDone == \A c \in Callers : calls.pc[c] = "done"

C19_ListIsOneToNextId ==
    /\ [](/\ Len(database.entities) = database.next_id - 1
          /\ \A i \in DOMAIN database.entities : database.entities[i] = i)
    /\ [][(database'.next_id # database.next_id \/ database'.entities # database.entities)
             => op' = "add_entity"]_vars

\* attach_component has just acted on a store that issued two ids.
C19_Witness ==
    /\ op = "attach_component"
    /\ database.next_id = 3
    /\ database.entities = <<1, 2>>

\* C20: an id that carries components but was never returned by add_entity is
\* in the result of no query, whatever the name list, while get_entity
\* returns its components and update_field, get_field and increment_field
\* succeed on it.
C20_UnlistedNeverQueried ==
    \A entity_id \in Ids :
        (/\ \E n \in Names : Has(database, entity_id, n)
         /\ \A i \in DOMAIN issued : issued[i] # entity_id) =>
            /\ \A names \in NameSeqs :
                  /\ entity_id \notin QueryIds(database, names)
                  /\ \A r \in get_entities_with_components(database, names) :
                        Len(r) = Cardinality(Carriers(database, names) \ {entity_id})
            /\ get_entity(database, entity_id) # EmptyMap
            /\ \A n \in Names : Has(database, entity_id, n) =>
                  /\ get_entity(database, entity_id)[n] = database.components[n][entity_id]
                  /\ \A f \in Fields, v \in FieldType :
                        LET u == update_component_field(database, entity_id, n, f, v)
                        IN  /\ u.ret = TRUE
                            /\ get_component_field_value(u.db, entity_id, n, f) = Some(v)
                  /\ \A f \in DOMAIN database.components[n][entity_id] :
                        /\ get_component_field_value(database, entity_id, n, f)
                              = Some(database.components[n][entity_id][f])
                        /\ \A v \in FieldType, checked \in BOOLEAN :
                              LET r == increment_component_field(database, entity_id, n, f, v, checked)
                              IN  /\ ~Panicked(r)
                                  /\ r.ret = TRUE

\* A query returned nothing although id 1 carries both components: no id was
\* issued, id 1 got them through attach_component only.
C20_Witness ==
    /\ op = "get_entities_with_components"
    /\ ret = <<>>
    /\ issued = <<>>
    /\ \A n \in Names : Has(database, 1, n)

====
